---- MODULE Spec2Model ----
(***************************************************************************)
(* Model of src/classifier.cpp: the Classifier object (training tables,   *)
(* calculate_log_likelihood, predict, the diagnostic dump) and main().     *)
(*                                                                         *)
(* Strings are sequences of character codes (ASCII: 32 = ' ', 97 = 'a',    *)
(* 98 = 'b', 99 = 'c'), so that tokenisation and std::string's operator<   *)
(* are computed, not assumed.                                              *)
(*                                                                         *)
(* A double that holds log(n / d) is represented by the ratio [num, den]   *)
(* whose logarithm it is; adding two logarithms multiplies the ratios and  *)
(* comparing two logarithms compares the ratios (ln is strictly            *)
(* increasing).  Rounding of IEEE doubles is not represented.              *)
(***************************************************************************)
EXTENDS Integers, Sequences, FiniteSets, TLC

\* Largest number of rows read from the training file / the test file.
MaxTrain == 3
MaxTest == 2

\* Rows the record source may deliver.
Labels == { <<98>>, <<97, 98>> }                       \* "b", "ab"
Contents == { <<>>,                                    \* ""
              <<97, 98, 32, 97, 98>>,                  \* "ab ab"
              <<32, 97, 98, 32, 32, 97>> }             \* " ab  a"
\* Rows of the test file, as << tag, content >>.
TestRows == { << <<>>, <<97, 98>> >>,                   \* "", "ab"
              << <<97, 98>>, <<99, 32, 97, 32, 99>> >> } \* "ab", "c a c"
\* Arguments of direct calls of calculate_log_likelihood.
QueryLabels == Labels \cup { <<99>> }                  \* adds "c"
QueryWords == { <<97>>, <<97, 98>>, <<99>> }           \* "a", "ab", "c"

VARIABLES
  pc,                   \* position in main()
  argc,                 \* main's argc
  train_opens,          \* whether ifstream fin(train_file) opens
  test_opens,           \* whether ifstream fin(test_file) opens
  total_posts,          \* Classifier::total_posts
  vocabulary,           \* Classifier::vocabulary
  numPosts_word,        \* Classifier::numPosts_word
  numPosts_label,       \* Classifier::numPosts_label
  numPosts_label_word,  \* Classifier::numPosts_label_word
  trainingData,         \* Classifier::trainingData
  out,                  \* the lines written to cout, in order
  correct,              \* main's correct
  total,                \* main's total
  exit_status,          \* main's return value (meaningful when pc = "done")
  ll_call               \* the last direct call of calculate_log_likelihood

classifier_vars == << total_posts, vocabulary, numPosts_word, numPosts_label,
                      numPosts_label_word, trainingData >>
main_vars == << pc, argc, train_opens, test_opens, out, correct, total,
                exit_status >>
vars == << pc, argc, train_opens, test_opens, total_posts, vocabulary,
           numPosts_word, numPosts_label, numPosts_label_word, trainingData,
           out, correct, total, exit_status, ll_call >>

-----------------------------------------------------------------------------
(* std::string and ordered containers *)

\* std::string operator< : lexicographic comparison by character code.
LexLess(s, t) ==
  \E i \in 1..Len(t) :
    /\ \A j \in 1..(i - 1) : j <= Len(s) /\ s[j] = t[j]
    /\ (i > Len(s) \/ s[i] < t[i])

\* Iteration order of a std::set<string> / the keys of a std::map<string, T>.
RECURSIVE SortedSeq(_)
SortedSeq(S) ==
  IF S = {} THEN << >>
  ELSE LET first == CHOOSE x \in S : \A y \in S \ {x} : LexLess(x, y)
       IN  << first >> \o SortedSeq(S \ {first})

\* isspace() as used by operator>> on the characters that occur here.
IsSpace(ch) == ch = 32

\* The successive results of `source >> word`: the maximal runs of
\* non-whitespace characters of str, in order.
RECURSIVE extract_words(_, _, _)
extract_words(str, i, word) ==
  IF i > Len(str)
    THEN (IF word = << >> THEN << >> ELSE << word >>)
  ELSE IF IsSpace(str[i])
    THEN (IF word = << >> THEN << >> ELSE << word >>)
         \o extract_words(str, i + 1, << >>)
  ELSE extract_words(str, i + 1, Append(word, str[i]))

unique_words(str) ==
  LET extracted == extract_words(str, 1, << >>)
  IN  { extracted[k] : k \in 1..Len(extracted) }

-----------------------------------------------------------------------------
(* doubles holding logarithms *)

\* log(static_cast<double>(n) / d)
Ln(n, d) == [lowest |-> FALSE, num |-> n, den |-> d]

\* numeric_limits<double>::lowest()
Lowest == [lowest |-> TRUE, num |-> 0, den |-> 1]

\* x + y for two logarithms
LnAdd(x, y) == [lowest |-> FALSE, num |-> x.num * y.num, den |-> x.den * y.den]

\* x > y
LnGreater(x, y) ==
  IF x.lowest THEN FALSE
  ELSE IF y.lowest THEN TRUE
  ELSE x.num * y.den > y.num * x.den

\* x == y
LnEqual(x, y) ==
  IF x.lowest \/ y.lowest THEN x.lowest /\ y.lowest
  ELSE x.num * y.den = y.num * x.den

-----------------------------------------------------------------------------
(* the Classifier object *)

\* The data members as one record.
Classifier(tp, voc, npw, npl, nplw, td) ==
  [ total_posts |-> tp, vocabulary |-> voc, numPosts_word |-> npw,
    numPosts_label |-> npl, numPosts_label_word |-> nplw, trainingData |-> td ]

self == Classifier(total_posts, vocabulary, numPosts_word, numPosts_label,
                   numPosts_label_word, trainingData)

\* A default-constructed Classifier.
EmptyClassifier == Classifier(0, {}, << >>, << >>, << >>, << >>)

\* m[key]++ on a std::map<string, int>: a missing key is created at 0 first.
Incremented(m, key) ==
  IF key \in DOMAIN m THEN [m EXCEPT ![key] = @ + 1] ELSE m @@ (key :> 1)

\* The loop over the words of one row (lines 60-64), words given in the
\* order of iteration.
RECURSIVE train_words(_, _, _, _)
train_words(c, label, words, i) ==
  IF i > Len(words) THEN c
  ELSE LET word == words[i]
           inner == IF label \in DOMAIN c.numPosts_label_word
                      THEN c.numPosts_label_word[label]
                      ELSE << >>
           next == [c EXCEPT
                      !.vocabulary = @ \cup {word},
                      !.numPosts_word = Incremented(@, word),
                      !.numPosts_label_word =
                         IF label \in DOMAIN @
                           THEN [@ EXCEPT ![label] = Incremented(inner, word)]
                           ELSE @ @@ (label :> Incremented(inner, word))]
       IN  train_words(next, label, words, i + 1)

\* Faulty variant: the loop runs over every extracted word, not over the
\* set of them.
train_row_per_occurrence(c, label, content) ==
  LET counted == [c EXCEPT
                    !.total_posts = @ + 1,
                    !.numPosts_label = Incremented(@, label),
                    !.trainingData = Append(@, << label, content >>)]
  IN  train_words(counted, label, extract_words(content, 1, << >>), 1)

\* Faulty variant: numPosts_label[label] is set when the label is new and
\* not incremented afterwards.
train_row_label_once(c, label, content) ==
  LET counted == [c EXCEPT
                    !.total_posts = @ + 1,
                    !.numPosts_label =
                       IF label \in DOMAIN @ THEN @ ELSE @ @@ (label :> 1),
                    !.trainingData = Append(@, << label, content >>)]
  IN  train_words(counted, label, SortedSeq(unique_words(content)), 1)

\* Faulty variant: numPosts_word[word] is incremented only for a word that
\* is new to the vocabulary.
train_row_new_words_only(c, label, content) ==
  LET counted == [c EXCEPT
                    !.total_posts = @ + 1,
                    !.numPosts_label = Incremented(@, label),
                    !.trainingData = Append(@, << label, content >>)]
      after == train_words(counted, label, SortedSeq(unique_words(content)), 1)
  IN  [after EXCEPT
         !.numPosts_word =
            [w \in DOMAIN @ |->
               IF w \in DOMAIN c.numPosts_word THEN c.numPosts_word[w] ELSE 1]]

\* One iteration of the while loop of train (lines 49-65).
train_row(c, label, content) ==
  LET counted == [c EXCEPT
                    !.total_posts = @ + 1,
                    !.numPosts_label = Incremented(@, label),
                    !.trainingData = Append(@, << label, content >>)]
  IN  train_words(counted, label, SortedSeq(unique_words(content)), 1)

\* std::map::find followed by a read of the mapped value, 0 when absent.
Found(m, key) == IF key \in DOMAIN m THEN m[key] ELSE 0

\* Faulty variant: the global back-off divides by the label's document count.
calculate_log_likelihood_label_backoff(c, label, word) ==
  LET count == IF label \in DOMAIN c.numPosts_label_word
                 THEN Found(c.numPosts_label_word[label], word)
                 ELSE 0
      globalCount == Found(c.numPosts_word, word)
  IN  IF count > 0 THEN Ln(count, c.numPosts_label[label])
      ELSE IF globalCount > 0 THEN Ln(globalCount, Found(c.numPosts_label, label))
      ELSE Ln(1, c.total_posts)

\* Classifier::calculate_log_likelihood (lines 81-116).
calculate_log_likelihood(c, label, word) ==
  LET count == IF label \in DOMAIN c.numPosts_label_word
                 THEN Found(c.numPosts_label_word[label], word)
                 ELSE 0
      globalCount == Found(c.numPosts_word, word)
  IN  IF count > 0 THEN Ln(count, c.numPosts_label[label])
      ELSE IF globalCount > 0 THEN Ln(globalCount, c.total_posts)
      ELSE Ln(1, c.total_posts)

\* The inner loop of predict (lines 175-178): score += log-likelihood of
\* each word, in the set's order.
RECURSIVE add_likelihoods(_, _, _, _, _)
add_likelihoods(c, label, words, i, score) ==
  IF i > Len(words) THEN score
  ELSE add_likelihoods(c, label, words, i + 1,
                       LnAdd(score, calculate_log_likelihood(c, label, words[i])))

\* The score predict computes for one label (lines 172-178).
label_score(c, label, words) ==
  add_likelihoods(c, label, words, 1,
                  Ln(c.numPosts_label[label], c.total_posts))

\* The loop over the labels of predict (lines 167-185).
RECURSIVE evaluate_labels(_, _, _, _, _, _)
evaluate_labels(c, words, labels, i, best_score, best_label) ==
  IF i > Len(labels) THEN [label |-> best_label, score |-> best_score]
  ELSE LET label == labels[i]
           score == label_score(c, label, words)
       IN  IF \/ LnGreater(score, best_score)
              \/ (LnEqual(score, best_score) /\ LexLess(label, best_label))
             THEN evaluate_labels(c, words, labels, i + 1, score, label)
             ELSE evaluate_labels(c, words, labels, i + 1, best_score, best_label)

\* Faulty loop: a later label replaces the best one on an equal score.
RECURSIVE evaluate_labels_last_wins(_, _, _, _, _, _)
evaluate_labels_last_wins(c, words, labels, i, best_score, best_label) ==
  IF i > Len(labels) THEN [label |-> best_label, score |-> best_score]
  ELSE LET label == labels[i]
           score == label_score(c, label, words)
       IN  IF LnGreater(score, best_score) \/ LnEqual(score, best_score)
             THEN evaluate_labels_last_wins(c, words, labels, i + 1, score, label)
             ELSE evaluate_labels_last_wins(c, words, labels, i + 1,
                                            best_score, best_label)

\* Faulty loop: only a strictly greater score replaces the best one.
RECURSIVE evaluate_labels_strict(_, _, _, _, _, _)
evaluate_labels_strict(c, words, labels, i, best_score, best_label) ==
  IF i > Len(labels) THEN [label |-> best_label, score |-> best_score]
  ELSE LET label == labels[i]
           score == label_score(c, label, words)
       IN  IF LnGreater(score, best_score)
             THEN evaluate_labels_strict(c, words, labels, i + 1, score, label)
             ELSE evaluate_labels_strict(c, words, labels, i + 1,
                                         best_score, best_label)

\* The labels of the training rows in order of first appearance.
RECURSIVE first_seen(_, _, _)
first_seen(td, i, seen) ==
  IF i > Len(td) THEN seen
  ELSE first_seen(td, i + 1,
                  IF \E k \in 1..Len(seen) : seen[k] = td[i][1]
                    THEN seen ELSE Append(seen, td[i][1]))

\* Faulty variant: ties go to the label that iteration reaches last.
predict_last_wins(c, content) ==
  evaluate_labels_last_wins(c, SortedSeq(unique_words(content)),
                            SortedSeq(DOMAIN c.numPosts_label), 1, Lowest, << >>)

\* Faulty variant: labels are visited in order of first appearance and ties
\* go to the label visited first.
predict_first_seen(c, content) ==
  evaluate_labels_strict(c, SortedSeq(unique_words(content)),
                         first_seen(c.trainingData, 1, << >>), 1, Lowest, << >>)

\* Faulty variant: best_score starts at 0.0 instead of lowest().
predict_from_zero(c, content) ==
  evaluate_labels(c, SortedSeq(unique_words(content)),
                  SortedSeq(DOMAIN c.numPosts_label), 1, Ln(1, 1), << >>)

\* Classifier::predict (lines 160-187): the returned label and best_score.
predict(c, content) ==
  evaluate_labels(c, SortedSeq(unique_words(content)),
                  SortedSeq(DOMAIN c.numPosts_label), 1, Lowest, << >>)

-----------------------------------------------------------------------------
(* the diagnostic dump *)

\* Classifier::print_training_data (lines 119-128).
print_training_data(c) ==
  << << "training data:" >> >>
  \o [i \in 1..Len(c.trainingData) |->
        << "example", c.trainingData[i][1], c.trainingData[i][2] >>]
  \o << << "trained on", c.total_posts >>,
        << "vocabulary size", Cardinality(c.vocabulary) >> >>

\* The body of the loop over the labels (lines 136-140) for the labels
\* in the given order.
class_lines(c, labels) ==
  [i \in 1..Len(labels) |->
     << "class", labels[i], c.numPosts_label[labels[i]],
        Ln(c.numPosts_label[labels[i]], c.total_posts) >>]

\* Faulty variant: the labels are listed in order of first appearance.
print_classes_first_seen(c) ==
  << << "classes:" >> >> \o class_lines(c, first_seen(c.trainingData, 1, << >>))

\* The "classes:" part of print_classifier_parameters (lines 134-141).
print_classes(c) ==
  << << "classes:" >> >> \o class_lines(c, SortedSeq(DOMAIN c.numPosts_label))

\* The inner loop of lines 147-155 for one label.
word_lines(c, label, words) ==
  [i \in 1..Len(words) |->
     << "parameter", label, words[i], c.numPosts_label_word[label][words[i]],
        calculate_log_likelihood(c, label, words[i]) >>]

\* The outer loop of lines 144-156.
RECURSIVE parameter_lines(_, _, _)
parameter_lines(c, labels, i) ==
  IF i > Len(labels) THEN << >>
  ELSE word_lines(c, labels[i],
                  SortedSeq(DOMAIN c.numPosts_label_word[labels[i]]))
       \o parameter_lines(c, labels, i + 1)

\* Classifier::print_classifier_parameters (lines 132-157).
print_classifier_parameters(c) ==
  print_classes(c)
  \o << << "classifier parameters:" >> >>
  \o parameter_lines(c, SortedSeq(DOMAIN c.numPosts_label_word), 1)

-----------------------------------------------------------------------------
(* main() *)

Init ==
  /\ pc = "start"
  /\ argc \in 1..4
  /\ train_opens \in BOOLEAN
  /\ test_opens \in BOOLEAN
  /\ total_posts = 0
  /\ vocabulary = {}
  /\ numPosts_word = << >>
  /\ numPosts_label = << >>
  /\ numPosts_label_word = << >>
  /\ trainingData = << >>
  /\ out = << >>
  /\ correct = 0
  /\ total = 0
  /\ exit_status = 0
  /\ ll_call = [called |-> FALSE, label |-> << >>, word |-> << >>,
                result |-> Lowest]

\* Lines 195-198: wrong number of arguments.
Usage ==
  /\ pc = "start"
  /\ (argc < 2 \/ argc > 3)
  /\ out' = Append(out, << "usage" >>)
  /\ exit_status' = 1
  /\ pc' = "done"
  /\ UNCHANGED << argc, train_opens, test_opens, correct, total, ll_call >>
  /\ UNCHANGED classifier_vars

\* Lines 39-43: train cannot open the file, reports it and returns.
TrainOpenFails ==
  /\ pc = "start"
  /\ ~(argc < 2 \/ argc > 3)
  /\ ~train_opens
  /\ out' = Append(out, << "error opening file", "train" >>)
  /\ pc' = "trained"
  /\ UNCHANGED << argc, train_opens, test_opens, correct, total, exit_status,
                  ll_call >>
  /\ UNCHANGED classifier_vars

\* Lines 39-46: train opens the file.
TrainOpens ==
  /\ pc = "start"
  /\ ~(argc < 2 \/ argc > 3)
  /\ train_opens
  /\ pc' = "train"
  /\ UNCHANGED << argc, train_opens, test_opens, out, correct, total,
                  exit_status, ll_call >>
  /\ UNCHANGED classifier_vars

\* Lines 49-65: csv >> row delivers a row and the loop body runs.
TrainRow(label, content) ==
  /\ pc = "train"
  /\ total_posts < MaxTrain
  /\ LET after == train_row(self, label, content)
     IN  /\ total_posts' = after.total_posts
         /\ vocabulary' = after.vocabulary
         /\ numPosts_word' = after.numPosts_word
         /\ numPosts_label' = after.numPosts_label
         /\ numPosts_label_word' = after.numPosts_label_word
         /\ trainingData' = after.trainingData
  /\ UNCHANGED << main_vars, ll_call >>

\* Line 49: csv >> row fails at the end of the file; train returns.
TrainEnd ==
  /\ pc = "train"
  /\ pc' = "trained"
  /\ UNCHANGED << argc, train_opens, test_opens, out, correct, total,
                  exit_status, ll_call >>
  /\ UNCHANGED classifier_vars

\* Lines 207-210 and 253: one argument, the dump, return 0.
Dump ==
  /\ pc = "trained"
  /\ argc = 2
  /\ out' = out \o print_training_data(self) \o print_classifier_parameters(self)
  /\ exit_status' = 0
  /\ pc' = "done"
  /\ UNCHANGED << argc, train_opens, test_opens, correct, total, ll_call >>
  /\ UNCHANGED classifier_vars

\* Lines 213-219: the test file cannot be opened.
TestOpenFails ==
  /\ pc = "trained"
  /\ argc = 3
  /\ ~test_opens
  /\ out' = Append(out, << "error opening file", "test" >>)
  /\ exit_status' = 1
  /\ pc' = "done"
  /\ UNCHANGED << argc, train_opens, test_opens, correct, total, ll_call >>
  /\ UNCHANGED classifier_vars

\* Lines 213-227: the test file opens.
TestOpens ==
  /\ pc = "trained"
  /\ argc = 3
  /\ test_opens
  /\ out' = out \o << << "trained on", total_posts >>, << "test data:" >> >>
  /\ correct' = 0
  /\ total' = 0
  /\ pc' = "test"
  /\ UNCHANGED << argc, train_opens, test_opens, exit_status, ll_call >>
  /\ UNCHANGED classifier_vars

\* Lines 231-246 as seen by main: the counters and the two lines printed
\* for a row whose prediction is `predicted`.
report_row(true_label, content, predicted) ==
  /\ total' = total + 1
  /\ correct' = IF predicted.label = true_label THEN correct + 1 ELSE correct
  /\ out' = out \o << << "prediction", true_label, predicted.label,
                         predicted.score >>,
                      << "content", content >> >>
  /\ UNCHANGED << pc, argc, train_opens, test_opens, exit_status, ll_call >>

\* Faulty variant: the look-ups of the words go through operator[], which
\* creates the missing keys.
TestRow_inserting(true_label, content) ==
  /\ pc = "test"
  /\ total < MaxTest
  /\ report_row(true_label, content, predict(self, content))
  /\ numPosts_word' =
       [w \in DOMAIN numPosts_word \cup unique_words(content) |->
          Found(numPosts_word, w)]
  /\ UNCHANGED << total_posts, vocabulary, numPosts_label,
                  numPosts_label_word, trainingData >>

\* Lines 230-247: csv >> row delivers a row; predict is a const member.
TestRow(true_label, content) ==
  /\ pc = "test"
  /\ total < MaxTest
  /\ report_row(true_label, content, predict(self, content))
  /\ UNCHANGED classifier_vars

\* Lines 230, 249-253: end of the test file, the performance line, return 0.
TestEnd ==
  /\ pc = "test"
  /\ out' = Append(out, << "performance", correct, total >>)
  /\ exit_status' = 0
  /\ pc' = "done"
  /\ UNCHANGED << argc, train_opens, test_opens, correct, total, ll_call >>
  /\ UNCHANGED classifier_vars

Next ==
  \/ Usage
  \/ TrainOpenFails
  \/ TrainOpens
  \/ \E label \in Labels, content \in Contents : TrainRow(label, content)
  \/ TrainEnd
  \/ Dump
  \/ TestOpenFails
  \/ TestOpens
  \/ \E row \in TestRows : TestRow(row[1], row[2])
  \/ TestEnd

Spec == Init /\ [][Next]_vars

-----------------------------------------------------------------------------
(* a client that trains a Classifier and calls calculate_log_likelihood *)

InitQuery ==
  /\ pc = "train"
  /\ argc = 2
  /\ train_opens = TRUE
  /\ test_opens = TRUE
  /\ total_posts = 0
  /\ vocabulary = {}
  /\ numPosts_word = << >>
  /\ numPosts_label = << >>
  /\ numPosts_label_word = << >>
  /\ trainingData = << >>
  /\ out = << >>
  /\ correct = 0
  /\ total = 0
  /\ exit_status = 0
  /\ ll_call = [called |-> FALSE, label |-> << >>, word |-> << >>,
                result |-> Lowest]

\* A call of calculate_log_likelihood(label, word) on the object as it is.
LogLikelihoodCall(label, word) ==
  /\ pc = "train"
  /\ ll_call' = [called |-> TRUE, label |-> label, word |-> word,
                 result |-> calculate_log_likelihood(self, label, word)]
  /\ UNCHANGED main_vars
  /\ UNCHANGED classifier_vars

NextQuery ==
  \/ \E label \in Labels, content \in Contents : TrainRow(label, content)
  \/ \E label \in QueryLabels, word \in QueryWords : LogLikelihoodCall(label, word)

SpecQuery == InitQuery /\ [][NextQuery]_vars

-----------------------------------------------------------------------------
(* the tables as total functions, and helpers of the properties *)

LabelFrequency(L) == Found(numPosts_label, L)
DocFrequency(w) == Found(numPosts_word, w)
LabelWordFrequency(L, w) ==
  IF L \in DOMAIN numPosts_label_word
    THEN Found(numPosts_label_word[L], w)
    ELSE 0

\* Every label and every word that a table has a key for, and the ones
\* that calls may name.
KnownLabels ==
  DOMAIN numPosts_label \cup DOMAIN numPosts_label_word \cup QueryLabels
KnownWords ==
  vocabulary \cup DOMAIN numPosts_word \cup QueryWords
  \cup UNION { DOMAIN numPosts_label_word[L] : L \in DOMAIN numPosts_label_word }

RECURSIVE SumOver(_, _)
SumOver(S, f) ==
  IF S = {} THEN 0
  ELSE LET x == CHOOSE y \in S : TRUE IN f[x] + SumOver(S \ {x}, f)

\* w is a whitespace-delimited word of str: a run of non-space characters
\* bounded on each side by a space or by an end of str.
OccursIn(w, str) ==
  /\ Len(w) > 0
  /\ \A k \in 1..Len(w) : w[k] # 32
  /\ \E i \in 1..Len(str) :
       /\ i + Len(w) - 1 <= Len(str)
       /\ SubSeq(str, i, i + Len(w) - 1) = w
       /\ (i = 1 \/ str[i - 1] = 32)
       /\ (i + Len(w) - 1 = Len(str) \/ str[i + Len(w)] = 32)

\* The prediction most recently reported by main, and its content.
HasReported == pc = "test" /\ total > 0
ReportedLabel == out[Len(out) - 1][3]
ReportedScore == out[Len(out) - 1][4]
ReportedContent == out[Len(out)][2]
ReportedWords == SortedSeq(unique_words(ReportedContent))

\* Labels whose score for the reported content no other label exceeds.
BestLabels ==
  { L \in DOMAIN numPosts_label :
      \A M \in DOMAIN numPosts_label :
        ~LnGreater(label_score(self, M, ReportedWords),
                   label_score(self, L, ReportedWords)) }

-----------------------------------------------------------------------------
(* C1 *)

\* C1: on a model trained on at least one row, predict returns a trained
\* label whose score (log prior plus the log-likelihoods of the distinct
\* words of the content) no trained label exceeds; among the labels that
\* reach that score it returns the lexicographically smallest; and the
\* returned score is that label's score.
C1_PredictArgMax ==
  (HasReported /\ total_posts > 0) =>
    /\ ReportedLabel \in BestLabels
    /\ \A M \in BestLabels : M = ReportedLabel \/ LexLess(ReportedLabel, M)
    /\ ReportedScore = label_score(self, ReportedLabel, ReportedWords)

\* Two labels tie at the maximum and the smaller one was returned.
C1_Witness ==
  /\ HasReported
  /\ total_posts > 0
  /\ Cardinality(BestLabels) = 2
  /\ ReportedLabel = << 97, 98 >>
  /\ << 98 >> \in BestLabels

-----------------------------------------------------------------------------
(* C2 *)

\* C2: calculate_log_likelihood(label, word) returns the logarithm of
\* c / LabelFrequency[label] when c = LabelWordFrequency[label][word] > 0,
\* else of g / TotalDocuments when g = DocFrequency[word] > 0, else of
\* 1 / TotalDocuments, for seen and unseen labels and words alike.
C2_ThreeTiers ==
  [][ (ll_call' # ll_call) =>
        LET label == ll_call'.label
            word == ll_call'.word
            c == LabelWordFrequency(label, word)
            g == DocFrequency(word)
        IN  ll_call'.result =
              IF c > 0 THEN Ln(c, LabelFrequency(label))
              ELSE IF g > 0 THEN Ln(g, total_posts)
              ELSE Ln(1, total_posts) ]_vars

\* A call for a label never trained and a word seen in some documents but
\* not all has returned the global ratio.
C2_Witness ==
  /\ ll_call.called
  /\ ll_call.label \notin DOMAIN numPosts_label
  /\ DocFrequency(ll_call.word) > 0
  /\ DocFrequency(ll_call.word) < total_posts
  /\ ll_call.result = Ln(DocFrequency(ll_call.word), total_posts)

-----------------------------------------------------------------------------
(* C3 *)

\* C3: TotalDocuments is the sum of LabelFrequency over the labels, and for
\* every word DocFrequency[w] is the sum over the labels of
\* LabelWordFrequency[L][w], after any number of training rows.
C3_CountConsistency ==
  /\ total_posts = SumOver(DOMAIN numPosts_label, numPosts_label)
  /\ \A w \in KnownWords :
       DocFrequency(w) =
         SumOver(KnownLabels, [L \in KnownLabels |-> LabelWordFrequency(L, w)])

\* Three rows under two labels, a word counted under both.
C3_Witness ==
  /\ pc = "trained"
  /\ total_posts = 3
  /\ Cardinality(DOMAIN numPosts_label) = 2
  /\ \E w \in vocabulary :
       \A L \in DOMAIN numPosts_label : LabelWordFrequency(L, w) > 0

-----------------------------------------------------------------------------
(* C4 *)

\* C4: training on one row with label L raises DocFrequency[w] and
\* LabelWordFrequency[L][w] by exactly 1 for each word w that occurs in the
\* content, however often it occurs, and changes no other entry of either
\* table.
C4_PerDocumentCount ==
  [][ (total_posts' = total_posts + 1) =>
        LET row == trainingData'[Len(trainingData')]
            words == KnownWords \cup KnownWords'
            labels == KnownLabels \cup KnownLabels'
        IN  \A w \in words :
              /\ DocFrequency(w)' - DocFrequency(w) =
                   (IF OccursIn(w, row[2]) THEN 1 ELSE 0)
              /\ \A M \in labels :
                   LabelWordFrequency(M, w)' - LabelWordFrequency(M, w) =
                     (IF M = row[1] /\ OccursIn(w, row[2]) THEN 1 ELSE 0) ]_vars

\* One row whose content repeats a word has been trained: the word counts 1.
C4_Witness ==
  /\ total_posts = 1
  /\ trainingData[1][2] = << 97, 98, 32, 97, 98 >>
  /\ DocFrequency(<< 97, 98 >>) = 1
  /\ LabelWordFrequency(trainingData[1][1], << 97, 98 >>) = 1

-----------------------------------------------------------------------------
(* C5 *)

\* C5: for every label L and word W, LabelWordFrequency[L][W] is at most
\* LabelFrequency[L] and at most DocFrequency[W].
C5_CountBounds ==
  \A L \in KnownLabels : \A W \in KnownWords :
    /\ LabelWordFrequency(L, W) <= LabelFrequency(L)
    /\ LabelWordFrequency(L, W) <= DocFrequency(W)

\* A word in every document of one label and in a document of another.
C5_Witness ==
  \E L \in DOMAIN numPosts_label : \E W \in vocabulary :
    /\ LabelFrequency(L) = 2
    /\ LabelWordFrequency(L, W) = 2
    /\ DocFrequency(W) = 3

-----------------------------------------------------------------------------
(* C6 *)

LinesOfKind(kind) == { k \in 1..Len(out) : out[k][1] = kind }

\* C6: when the training file or the test file cannot be opened, the program
\* reports the error and exits with a nonzero status, and emits no dump,
\* classifies no held-out row and prints no performance line.
C6_OpenFailureStops ==
  ( /\ pc = "done"
    /\ argc \in 2..3
    /\ (~train_opens \/ (argc = 3 /\ ~test_opens)) ) =>
      /\ LinesOfKind("error opening file") # {}
      /\ exit_status # 0
      /\ LinesOfKind("training data:") = {}
      /\ LinesOfKind("classes:") = {}
      /\ LinesOfKind("prediction") = {}
      /\ LinesOfKind("performance") = {}

-----------------------------------------------------------------------------
(* C7 *)

\* C7: a prediction, whatever the content and however many predictions went
\* before, leaves total_posts, vocabulary, numPosts_word, numPosts_label,
\* numPosts_label_word and trainingData as they were, keys included.
C7_PredictReadOnly ==
  [][ (pc = "test" /\ total' = total + 1) =>
        /\ classifier_vars' = classifier_vars
        /\ DOMAIN numPosts_word' = DOMAIN numPosts_word
        /\ DOMAIN numPosts_label' = DOMAIN numPosts_label
        /\ DOMAIN numPosts_label_word' = DOMAIN numPosts_label_word ]_vars

\* Two predictions were made on a trained model, the last one for a content
\* with a word that no training row has, and the word has no key.
C7_Witness ==
  /\ HasReported
  /\ total = 2
  /\ total_posts > 0
  /\ << 99 >> \in unique_words(ReportedContent)
  /\ << 99 >> \notin DOMAIN numPosts_word

-----------------------------------------------------------------------------
(* C8 *)

\* The Classifier after training on the first n of the given rows.
RECURSIVE TrainedOn(_, _)
TrainedOn(rows, n) ==
  IF n = 0 THEN EmptyClassifier
  ELSE train_row(TrainedOn(rows, n - 1), rows[n][1], rows[n][2])

RowOrders(n) ==
  { p \in [1..n -> 1..n] : \A i, j \in 1..n : i # j => p[i] # p[j] }

\* C8: a model trained on any permutation of the training rows predicts the
\* same label with the same score; in particular a tie between two labels
\* is resolved the same way whichever of them was trained first.
C8_TrainingOrderIndependent ==
  HasReported =>
    \A p \in RowOrders(Len(trainingData)) :
      predict(TrainedOn([i \in 1..Len(trainingData) |-> trainingData[p[i]]],
                        Len(trainingData)),
              ReportedContent)
        = [label |-> ReportedLabel, score |-> ReportedScore]

\* Two labels tie; the lexicographically larger one was trained first and
\* the smaller one was returned.
C8_Witness ==
  /\ HasReported
  /\ Len(trainingData) >= 2
  /\ trainingData[1][1] = << 98 >>
  /\ BestLabels = { << 98 >>, << 97, 98 >> }
  /\ ReportedLabel = << 97, 98 >>

-----------------------------------------------------------------------------
(* C9 *)

\* The labels of the per-label lines of the dump, in the order printed.
DumpedLabels ==
  LET IsClassLine(line) == line[1] = "class"
      lines == SelectSeq(out, IsClassLine)
  IN  [i \in 1..Len(lines) |-> lines[i][2]]

\* The row at which a label first appears in the training data.
FirstRowOf(L) ==
  CHOOSE k \in 1..Len(trainingData) :
    /\ trainingData[k][1] = L
    /\ \A m \in 1..(k - 1) : trainingData[m][1] # L

Dumped == pc = "done" /\ LinesOfKind("classes:") # {}

\* C9 as stated: the per-label lines of the dump come in the order in which
\* the labels first appeared in the training rows.
C9_DumpInsertionOrder ==
  Dumped =>
    \A i, j \in 1..Len(DumpedLabels) :
      i < j => FirstRowOf(DumpedLabels[i]) < FirstRowOf(DumpedLabels[j])

\* C9 amended: the per-label lines of the dump list every trained label
\* once, in ascending lexicographic order of the label.
C9_DumpSortedOrder ==
  Dumped =>
    /\ { DumpedLabels[i] : i \in 1..Len(DumpedLabels) } = DOMAIN numPosts_label
    /\ \A i, j \in 1..Len(DumpedLabels) :
         i < j => LexLess(DumpedLabels[i], DumpedLabels[j])

\* A dump of two labels of which the larger was trained first.
C9_Witness ==
  /\ Dumped
  /\ Len(DumpedLabels) = 2
  /\ trainingData[1][1] = << 98 >>
  /\ DumpedLabels[1] = << 97, 98 >>

-----------------------------------------------------------------------------
(* C10 *)

\* C10: on a model with no trained document predict returns the empty label
\* and leaves the score at lowest(); every held-out row with a non-empty
\* true label is then counted as incorrect.
C10_UntrainedPredict ==
  (pc \in {"test", "done"} /\ total_posts = 0) =>
    /\ \A k \in LinesOfKind("prediction") :
         out[k][3] = << >> /\ out[k][4] = Lowest
    /\ correct =
         Cardinality({ k \in LinesOfKind("prediction") : out[k][2] = << >> })

\* The training file did not open, the test file did, and two rows, one of
\* them with a non-empty true label, were classified.
C10_Witness ==
  /\ ~train_opens
  /\ pc = "done"
  /\ total_posts = 0
  /\ total = 2
  /\ correct = 1
  /\ \E k \in LinesOfKind("prediction") : out[k][2] = << 97, 98 >>

====
